---- MODULE Spec2Model ----
(***************************************************************************)
(* Model of cmd/headscale/cli/nodes.go: the "nodes" sub-commands           *)
(* (register, list, expire, delete, move) and the table projection         *)
(* nodesToPtables.                                                         *)
(*                                                                         *)
(* Conventions.                                                            *)
(*  - An optional (pointer) field is a sequence: <<>> is nil, <<v>> is a   *)
(*    present value v.                                                     *)
(*  - A time.Time is an integer count of minutes since Go's zero time, so  *)
(*    0 is the instant for which IsZero() holds.                           *)
(*  - A pterm colour wrapper is modelled by the mark-up it puts around the *)
(*    text, so that a coloured cell differs from the bare text.            *)
(*  - One call of nodesToPtables reads the clock as one value `now`.       *)
(***************************************************************************)
EXTENDS Integers, Sequences, FiniteSets, TLC

VARIABLES
    cmd,        \* the sub-command that is running
    pc,         \* position inside the handler
    output,     \* value of the global --output flag ("" is table mode)
    force,      \* value of the --force flag
    confirm,    \* the `confirm` local of deleteNodeCmd
    answer,     \* what survey.AskOne did: "none" (not asked), "yes", "no", "err"
    calls,      \* remote calls issued so far, in order, each with its outcome
    stdout,     \* messages emitted so far, in order
    failed,     \* the step the invocation failed at, "none" if none
    conn,       \* client connection: "none", "open", "closed"
    ctx,        \* bounded-lifetime context: "none", "live", "cancelled"
    namespace,  \* currentNamespace / the --namespace flag value
    columns,    \* withColumns / the --columns flag value
    machines,   \* the machines handed to nodesToPtables (response.Machines)
    now,        \* the reading of time.Now()
    result      \* what nodesToPtables returned: [tableData, err]

vars == <<cmd, pc, output, force, confirm, answer, calls, stdout, failed,
          conn, ctx, namespace, columns, machines, now, result>>

-----------------------------------------------------------------------------
(* Bounds *)

MaxTime == 12
MaxCols == 2
MaxMachines == 2
MaxAddrs == 3
MaxRoutes == 2

-----------------------------------------------------------------------------
(* Package-level tables *)

availableColumns ==
    [k \in {"id", "name", "nodekey", "namespace", "ip_addresses", "ephemeral",
            "last_seen", "online", "expired", "tags", "routes"} |->
        CASE k = "id"           -> "ID"
          [] k = "name"         -> "Names"
          [] k = "nodekey"      -> "NodeKey"
          [] k = "namespace"    -> "Namespace"
          [] k = "ip_addresses" -> "IP addresses"
          [] k = "ephemeral"    -> "Ephemeral"
          [] k = "last_seen"    -> "Last seen"
          [] k = "online"       -> "Online"
          [] k = "expired"      -> "Expired"
          [] k = "tags"         -> "Tags"
          [] k = "routes"       -> "Routes"]

defaultColumns_withTags ==
    <<"id", "name", "nodekey", "namespace", "ip_addresses", "ephemeral",
      "last_seen", "online", "expired", "tags">>

defaultColumns ==
    <<"id", "name", "nodekey", "namespace", "ip_addresses", "ephemeral",
      "last_seen", "online", "expired">>

\* Indexing a Go map[string]string with a missing key yields "".
MapGet(m, k) == IF k \in DOMAIN m THEN m[k] ELSE ""

-----------------------------------------------------------------------------
(* Library conversions used by nodesToPtables *)

LightGreen(s)   == "<LightGreen>" \o s \o "</>"
LightRed(s)     == "<LightRed>" \o s \o "</>"
LightMagenta(s) == "<LightMagenta>" \o s \o "</>"
LightYellow(s)  == "<LightYellow>" \o s \o "</>"

RECURSIVE Join(_, _)
Join(elems, sep) ==
    IF elems = <<>> THEN ""
    ELSE IF Len(elems) = 1 THEN elems[1]
    ELSE elems[1] \o sep \o Join(Tail(elems), sep)

FormatUint(n) == ToString(n)
FormatBool(b) == IF b THEN "true" ELSE "false"
FormatTime(t) == "2006-01-02 15:04:" \o ToString(t)

\* The address literals of the model and their families (netaddr.ParseIP).
IPv4Literals == {"100.64.0.1", "100.64.0.2"}
IPv6Literals == {"fd7a::1", "fd7a::2"}
BadLiterals  == {"not-an-ip"}
ParsesAsIP(addr) == addr \in IPv4Literals \cup IPv6Literals
Is4(addr) == addr \in IPv4Literals

\* The node keys of the model: the text form with and without its prefix,
\* and one that does not decode.
NodeKeys == {"nodekey:ab12", "cd34", "zz"}
NodePublicKeyEnsurePrefix(k) ==
    IF k \in {"nodekey:ab12"} THEN k ELSE "nodekey:" \o k
UnmarshalTextOK(text) == text \in {"nodekey:ab12", "nodekey:cd34"}
ShortString(text) ==
    IF text = "nodekey:ab12" THEN "[ab12]" ELSE "[cd34]"

-----------------------------------------------------------------------------
(* nodesToPtables, column by column *)

FiveMinutes == 5

Ephemeral(machine) ==
    machine.PreAuthKey # <<>> /\ machine.PreAuthKey[1].Ephemeral

\* var lastSeen time.Time stays the zero time when machine.LastSeen is nil.
LastSeenOf(machine) ==
    IF machine.LastSeen # <<>> THEN machine.LastSeen[1] ELSE 0

LastSeenTime(machine) ==
    IF machine.LastSeen # <<>> THEN FormatTime(machine.LastSeen[1]) ELSE ""

ExpiryOf(machine) ==
    IF machine.Expiry # <<>> THEN machine.Expiry[1] ELSE 0

After(t, u) == t > u
IsZero(t) == t = 0

IsOnline_inclusive(lastSeen, t) == lastSeen >= t - FiveMinutes

IsOnline(lastSeen, t) == After(lastSeen, t - FiveMinutes)

Online(machine, t) ==
    IF IsOnline(LastSeenOf(machine), t)
    THEN LightGreen("online")
    ELSE LightRed("offline")

NotExpired_strictOnly(expiry, t) == IsZero(expiry) \/ ~After(t, expiry)

NotExpired(expiry, t) == IsZero(expiry) \/ After(expiry, t)

Expired(machine, t) ==
    IF NotExpired(ExpiryOf(machine), t)
    THEN LightGreen("no")
    ELSE LightRed("yes")

NamespaceCell(currentNamespace, machine) ==
    IF currentNamespace = "" \/ currentNamespace = machine.Namespace.Name
    THEN LightMagenta(machine.Namespace.Name)
    ELSE LightYellow(machine.Namespace.Name)

\* One turn of the address loop: acc is [v4, v6, panic].
AddrStep_firstWins(acc, addr) ==
    IF acc.panic \/ ~ParsesAsIP(addr) THEN [acc EXCEPT !.panic = TRUE]
    ELSE IF Is4(addr)
         THEN (IF acc.v4 = "" THEN [acc EXCEPT !.v4 = addr] ELSE acc)
         ELSE (IF acc.v6 = "" THEN [acc EXCEPT !.v6 = addr] ELSE acc)

AddrStep(acc, addr) ==
    IF acc.panic \/ ~ParsesAsIP(addr) THEN [acc EXCEPT !.panic = TRUE]
    ELSE IF Is4(addr) THEN [acc EXCEPT !.v4 = addr]
    ELSE [acc EXCEPT !.v6 = addr]

RECURSIVE AddrLoop(_, _)
AddrLoop(acc, addrs) ==
    IF addrs = <<>> THEN acc
    ELSE AddrLoop(AddrStep(acc, Head(addrs)), Tail(addrs))

ClassifyAddresses(addrs) ==
    AddrLoop([v4 |-> "", v6 |-> "", panic |-> FALSE], addrs)

IsStringInSlice(slice, str) == \E i \in DOMAIN slice : slice[i] = str

\* One entry per enabled route instead of one per requested route.
RECURSIVE Routes_overEnabled(_, _)
Routes_overEnabled(requested, enabled) ==
    IF enabled = <<>> THEN <<>>
    ELSE <<IF IsStringInSlice(requested, Head(enabled))
           THEN "*" \o LightGreen(Head(enabled))
           ELSE LightRed(Head(enabled))>>
         \o Routes_overEnabled(requested, Tail(enabled))

RECURSIVE Routes(_, _)
Routes(requested, enabled) ==
    IF requested = <<>> THEN <<>>
    ELSE <<IF IsStringInSlice(enabled, Head(requested))
           THEN "*" \o LightGreen(Head(requested))
           ELSE LightRed(Head(requested))>>
         \o Routes(Tail(requested), enabled)

defaultData(currentNamespace, machine, t) ==
    LET ip == ClassifyAddresses(machine.IpAddresses)
        key == NodePublicKeyEnsurePrefix(machine.NodeKey)
    IN  [k \in DOMAIN availableColumns |->
            CASE k = "id"           -> FormatUint(machine.Id)
              [] k = "name"         -> machine.Name
              [] k = "nodekey"      -> ShortString(key)
              [] k = "namespace"    -> NamespaceCell(currentNamespace, machine)
              [] k = "ip_addresses" -> Join(<<ip.v4, ip.v6>>, ", ")
              [] k = "ephemeral"    -> FormatBool(Ephemeral(machine))
              [] k = "last_seen"    -> LastSeenTime(machine)
              [] k = "online"       -> Online(machine, t)
              [] k = "expired"      -> Expired(machine, t)
              [] k = "tags"         -> Join(machine.RequestTags, ", ")
              [] k = "routes"       ->
                    Join(Routes(machine.RequestedRoutes, machine.EnabledRoutes), ", ")]

\* The columns a header or a row is built from.
UsedColumns_alwaysDefault(withColumns) == defaultColumns

UsedColumns(withColumns) ==
    IF Len(withColumns) > 0 THEN withColumns ELSE defaultColumns

tableHeader(withColumns) ==
    [i \in 1..Len(UsedColumns(withColumns)) |->
        MapGet(availableColumns, UsedColumns(withColumns)[i])]

nodeData(currentNamespace, withColumns, machine, t) ==
    [i \in 1..Len(UsedColumns(withColumns)) |->
        MapGet(defaultData(currentNamespace, machine, t), UsedColumns(withColumns)[i])]

\* The loop over machines: a key that does not decode returns (nil, err), an
\* address that does not parse panics in MustParseIP; the key is looked at
\* first, and a machine is only reached if those before it went through.
RECURSIVE MachineLoop(_, _, _, _, _)
MachineLoop(tableData, currentNamespace, withColumns, ms, t) ==
    IF ms = <<>> THEN [tableData |-> tableData, err |-> "nil"]
    ELSE IF ~UnmarshalTextOK(NodePublicKeyEnsurePrefix(Head(ms).NodeKey))
         THEN [tableData |-> <<>>, err |-> "UnmarshalText"]
    ELSE IF ClassifyAddresses(Head(ms).IpAddresses).panic
         THEN [tableData |-> <<>>, err |-> "panic"]
    ELSE MachineLoop(
            Append(tableData, nodeData(currentNamespace, withColumns, Head(ms), t)),
            currentNamespace, withColumns, Tail(ms), t)

nodesToPtables(currentNamespace, withColumns, ms, t) ==
    MachineLoop(<<tableHeader(withColumns)>>, currentNamespace, withColumns, ms, t)

-----------------------------------------------------------------------------
(* Inputs of the model *)

Nil == <<>>
Some(v) == <<v>>

BaseMachine ==
    [Id |-> 1, Name |-> "alpha", NodeKey |-> "nodekey:ab12",
     Namespace |-> [Name |-> "ns1"],
     IpAddresses |-> <<"100.64.0.1", "fd7a::1">>,
     PreAuthKey |-> Nil, LastSeen |-> Nil, Expiry |-> Nil,
     RequestTags |-> <<>>, RequestedRoutes |-> <<>>, EnabledRoutes |-> <<>>]

OtherMachine ==
    [Id |-> 2, Name |-> "beta", NodeKey |-> "cd34",
     Namespace |-> [Name |-> "ns2"],
     IpAddresses |-> <<"100.64.0.2">>,
     PreAuthKey |-> Some([Ephemeral |-> TRUE]),
     LastSeen |-> Some(4), Expiry |-> Some(3),
     RequestTags |-> <<"tag:a", "tag:b">>,
     RequestedRoutes |-> <<"10.0.0.0/8", "192.168.0.0/16">>,
     EnabledRoutes |-> <<"10.0.0.0/8">>]

BadKeyMachine == [BaseMachine EXCEPT !.Id = 3, !.NodeKey = "zz"]

BadAddrMachine == [BaseMachine EXCEPT !.Id = 4, !.IpAddresses = <<"not-an-ip">>]

SampleMachines == {BaseMachine, OtherMachine, BadKeyMachine, BadAddrMachine}

\* All sequences over S of length at most n.
SeqsUpTo(S, n) == UNION {[1..k -> S] : k \in 0..n}

ColumnInputs == DOMAIN availableColumns \cup {"bogus"}

Times == 0..MaxTime
\* time.Now() is some two thousand years after the zero time: never within
\* five minutes of it.
Nows == (FiveMinutes + 1)..MaxTime
Opt(S) == {Nil} \cup {Some(v) : v \in S}

WellFormed(machine) ==
    /\ UnmarshalTextOK(NodePublicKeyEnsurePrefix(machine.NodeKey))
    /\ \A i \in DOMAIN machine.IpAddresses : ParsesAsIP(machine.IpAddresses[i])

-----------------------------------------------------------------------------
(* SpecTable: nodesToPtables applied to inputs drawn from bounded sets *)

IdleCommand ==
    /\ output = "" /\ force = FALSE /\ confirm = FALSE /\ answer = "none"
    /\ calls = <<>> /\ stdout = <<>> /\ failed = "none"
    /\ conn = "none" /\ ctx = "none"

\* Column lists against a few machines.
InitColumns ==
    /\ namespace = "ns1"
    /\ now = 5
    /\ columns \in SeqsUpTo(ColumnInputs, MaxCols)
    /\ machines \in SeqsUpTo(SampleMachines, MaxMachines)

\* One machine, its timestamps against the clock.
InitStatus ==
    /\ namespace \in {"", "ns1", "ns2"}
    /\ now \in Nows
    /\ columns = <<"last_seen", "online", "expired", "namespace">>
    /\ \E ls \in Opt(Times), ex \in Opt(Times) :
          machines = <<[BaseMachine EXCEPT !.LastSeen = ls, !.Expiry = ex]>>

\* One machine, its address list.
InitAddrs ==
    /\ namespace = ""
    /\ now = 5
    /\ columns = <<"ip_addresses">>
    /\ \E addrs \in SeqsUpTo(IPv4Literals \cup IPv6Literals \cup BadLiterals, MaxAddrs) :
          machines = <<[BaseMachine EXCEPT !.IpAddresses = addrs]>>

RouteInputs == {"10.0.0.0/8", "192.168.0.0/16", "0.0.0.0/0"}

\* One machine, its requested routes against its enabled routes.
InitRoutes ==
    /\ namespace = ""
    /\ now = FiveMinutes + 1
    /\ columns = <<"routes">>
    /\ \E req \in SeqsUpTo(RouteInputs, MaxRoutes), en \in SeqsUpTo(RouteInputs, MaxRoutes) :
          machines = <<[BaseMachine EXCEPT !.RequestedRoutes = req,
                                           !.EnabledRoutes = en]>>

InitTable ==
    /\ cmd = "nodesToPtables"
    /\ pc = "call"
    /\ IdleCommand
    /\ result = [tableData |-> <<>>, err |-> "nil"]
    /\ (InitColumns \/ InitStatus \/ InitAddrs \/ InitRoutes)

Project ==
    /\ cmd = "nodesToPtables"
    /\ pc = "call"
    /\ result' = nodesToPtables(namespace, columns, machines, now)
    /\ pc' = "returned"
    /\ UNCHANGED <<cmd, output, force, confirm, answer, calls, stdout, failed,
                   conn, ctx, namespace, columns, machines, now>>

NextTable == Project

SpecTable == InitTable /\ [][NextTable]_vars

Returned == cmd = "nodesToPtables" /\ pc = "returned"

-----------------------------------------------------------------------------
(* The command handlers (Spec): one invocation of one sub-command *)

Commands == {"register", "list", "expire", "delete", "move"}
OutputFormats == {"", "json"}
Namespaces == {"", "ns1"}
ColumnFlagValues ==
    {defaultColumns, <<>>, <<"name", "bogus">>, <<"routes", "id", "id">>}

flagVars == <<cmd, output, force>>
promptVars == <<confirm, answer>>
tableVars == <<columns, machines, now, result>>

\* What the output helpers print, as one message. The response value is
\* named by a tag; a machine list and a rendered table are kept whole.
Message(kind, tag, ms, table, override, outputFormat) ==
    [kind |-> kind, result |-> tag, machines |-> ms, table |-> table,
     override |-> override, format |-> outputFormat]

ErrorOutput(errResult, override, outputFormat) ==
    Message("error", errResult, <<>>, <<>>, override, outputFormat)

SuccessOutput(tag, override, outputFormat) ==
    Message("success", tag, <<>>, <<>>, override, outputFormat)

SuccessOutputMachines(ms, override, outputFormat) ==
    Message("success", "[]Machine", ms, <<>>, override, outputFormat)

\* pterm's Render printing the table.
Rendered(table) == Message("table", "TableData", <<>>, table, "", "")

\* getHeadscaleCLIClient followed by the two defers.
Acquire(next) ==
    /\ pc' = next
    /\ conn' = "open"
    /\ ctx' = "live"
    /\ UNCHANGED <<flagVars, promptVars, calls, stdout, failed, namespace, tableVars>>

\* A return that runs no deferred call.
Exit_noRelease(msgs, why) ==
    /\ pc' = "done"
    /\ stdout' = msgs
    /\ failed' = why
    /\ UNCHANGED <<conn, ctx>>

\* A return from the handler: what was printed, the step that failed if one
\* did, and the deferred cancel() and conn.Close() if they were registered.
Exit(msgs, why) ==
    /\ pc' = "done"
    /\ stdout' = msgs
    /\ failed' = why
    /\ conn' = IF conn = "open" THEN "closed" ELSE conn
    /\ ctx' = IF ctx = "live" THEN "cancelled" ELSE ctx

Call(rpc, ok) == calls' = Append(calls, [rpc |-> rpc, ok |-> ok])

Init ==
    /\ cmd \in Commands
    /\ pc = "start"
    /\ output \in OutputFormats
    /\ force \in BOOLEAN
    /\ confirm = FALSE
    /\ answer = "none"
    /\ calls = <<>>
    /\ stdout = <<>>
    /\ failed = "none"
    /\ conn = "none"
    /\ ctx = "none"
    /\ namespace = ""
    /\ columns = <<>>
    /\ machines = <<>>
    /\ now = FiveMinutes + 1
    /\ result = [tableData |-> <<>>, err |-> "nil"]

(* registerNodeCmd *)

RegisterGetNamespace ==
    /\ cmd = "register" /\ pc = "start"
    /\ \/ /\ Exit(Append(stdout, ErrorOutput("flag", "Error getting namespace", output)), "param")
          /\ UNCHANGED <<flagVars, promptVars, calls, namespace, tableVars>>
       \/ /\ namespace' \in Namespaces
          /\ pc' = "client"
          /\ UNCHANGED <<flagVars, promptVars, calls, stdout, failed, conn, ctx, tableVars>>

RegisterGetClient == cmd = "register" /\ pc = "client" /\ Acquire("key")

RegisterGetKey_continues ==
    /\ cmd = "register" /\ pc = "key"
    /\ \/ /\ stdout' = Append(stdout, ErrorOutput("flag", "Error getting machine key from flag", output))
          /\ failed' = "param"
          /\ pc' = "call"
          /\ UNCHANGED <<flagVars, promptVars, calls, conn, ctx, namespace, tableVars>>
       \/ /\ pc' = "call"
          /\ UNCHANGED <<flagVars, promptVars, calls, stdout, failed, conn, ctx, namespace, tableVars>>

RegisterGetKey ==
    /\ cmd = "register" /\ pc = "key"
    /\ \/ /\ Exit(Append(stdout, ErrorOutput("flag", "Error getting machine key from flag", output)), "param")
          /\ UNCHANGED <<flagVars, promptVars, calls, namespace, tableVars>>
       \/ /\ pc' = "call"
          /\ UNCHANGED <<flagVars, promptVars, calls, stdout, failed, conn, ctx, namespace, tableVars>>

RegisterMachine ==
    /\ cmd = "register" /\ pc = "call"
    /\ \E ok \in BOOLEAN :
          /\ Call("RegisterMachine", ok)
          /\ IF ~ok
             THEN Exit(Append(stdout, ErrorOutput("rpc", "Cannot register machine", output)), "remote")
             ELSE Exit(Append(stdout, SuccessOutput("Machine", "Machine register", output)), "none")
    /\ UNCHANGED <<flagVars, promptVars, namespace, tableVars>>

(* listNodesCmd *)

ListGetNamespace ==
    /\ cmd = "list" /\ pc = "start"
    /\ \/ /\ Exit(Append(stdout, ErrorOutput("flag", "Error getting namespace", output)), "param")
          /\ UNCHANGED <<flagVars, promptVars, calls, namespace, tableVars>>
       \/ /\ namespace' \in Namespaces
          /\ pc' = "columns"
          /\ UNCHANGED <<flagVars, promptVars, calls, stdout, failed, conn, ctx, tableVars>>

ListGetColumns ==
    /\ cmd = "list" /\ pc = "columns"
    /\ \/ /\ Exit(Append(stdout, ErrorOutput("flag", "Error getting columns", output)), "param")
          /\ UNCHANGED <<flagVars, promptVars, calls, namespace, tableVars>>
       \/ /\ columns' \in ColumnFlagValues
          /\ pc' = "client"
          /\ UNCHANGED <<flagVars, promptVars, calls, stdout, failed, conn, ctx,
                         namespace, machines, now, result>>

ListGetClient == cmd = "list" /\ pc = "client" /\ Acquire("call")

ListMachines_alwaysTable ==
    /\ cmd = "list" /\ pc = "call"
    /\ \/ /\ Call("ListMachines", FALSE)
          /\ Exit(Append(stdout, ErrorOutput("rpc", "Cannot get nodes", output)), "remote")
          /\ UNCHANGED <<flagVars, promptVars, namespace, tableVars>>
       \/ /\ Call("ListMachines", TRUE)
          /\ machines' \in SeqsUpTo(SampleMachines, MaxMachines)
          /\ pc' = "convert"
          /\ UNCHANGED <<stdout, failed, conn, ctx>>
          /\ UNCHANGED <<flagVars, promptVars, namespace, columns, now, result>>

ListMachines ==
    /\ cmd = "list" /\ pc = "call"
    /\ \/ /\ Call("ListMachines", FALSE)
          /\ Exit(Append(stdout, ErrorOutput("rpc", "Cannot get nodes", output)), "remote")
          /\ UNCHANGED <<flagVars, promptVars, namespace, tableVars>>
       \/ /\ Call("ListMachines", TRUE)
          /\ machines' \in SeqsUpTo(SampleMachines, MaxMachines)
          /\ IF output # ""
             THEN Exit(Append(stdout, SuccessOutputMachines(machines', "", output)), "none")
             ELSE /\ pc' = "convert"
                  /\ UNCHANGED <<stdout, failed, conn, ctx>>
          /\ UNCHANGED <<flagVars, promptVars, namespace, columns, now, result>>

\* A panic in nodesToPtables unwinds the handler: the defers run, nothing is
\* printed by the handler.
ListConvert ==
    /\ cmd = "list" /\ pc = "convert"
    /\ now' \in Nows
    /\ result' = nodesToPtables(namespace, columns, machines, now')
    /\ CASE result'.err = "panic" -> Exit(stdout, "panic")
         [] result'.err = "UnmarshalText" ->
                Exit(Append(stdout, ErrorOutput("UnmarshalText", "Error converting to table", output)), "convert")
         [] OTHER -> /\ pc' = "render"
                     /\ UNCHANGED <<stdout, failed, conn, ctx>>
    /\ UNCHANGED <<flagVars, promptVars, calls, namespace, columns, machines>>

ListRender ==
    /\ cmd = "list" /\ pc = "render"
    /\ \/ Exit(Append(stdout, Rendered(result.tableData)), "none")
       \/ Exit(Append(stdout, ErrorOutput("render", "Failed to render pterm table", output)), "render")
    /\ UNCHANGED <<flagVars, promptVars, calls, namespace, tableVars>>

(* expireNodeCmd *)

ExpireGetIdentifier ==
    /\ cmd = "expire" /\ pc = "start"
    /\ \/ /\ Exit(Append(stdout, ErrorOutput("flag", "Error converting ID to integer", output)), "param")
          /\ UNCHANGED <<flagVars, promptVars, calls, namespace, tableVars>>
       \/ /\ pc' = "client"
          /\ UNCHANGED <<flagVars, promptVars, calls, stdout, failed, conn, ctx, namespace, tableVars>>

ExpireGetClient == cmd = "expire" /\ pc = "client" /\ Acquire("call")

\* A failed call is issued once more.
ExpireMachine_retries ==
    /\ cmd = "expire" /\ pc = "call"
    /\ \E ok \in BOOLEAN :
          /\ Call("ExpireMachine", ok)
          /\ IF ~ok /\ calls = <<>>
             THEN UNCHANGED <<pc, stdout, failed, conn, ctx>>
             ELSE IF ~ok
             THEN Exit(Append(stdout, ErrorOutput("rpc", "Cannot expire machine", output)), "remote")
             ELSE Exit(Append(stdout, SuccessOutput("Machine", "Machine expired", output)), "none")
    /\ UNCHANGED <<flagVars, promptVars, namespace, tableVars>>

ExpireMachine ==
    /\ cmd = "expire" /\ pc = "call"
    /\ \E ok \in BOOLEAN :
          /\ Call("ExpireMachine", ok)
          /\ IF ~ok
             THEN Exit(Append(stdout, ErrorOutput("rpc", "Cannot expire machine", output)), "remote")
             ELSE Exit(Append(stdout, SuccessOutput("Machine", "Machine expired", output)), "none")
    /\ UNCHANGED <<flagVars, promptVars, namespace, tableVars>>

(* deleteNodeCmd *)

DeleteGetIdentifier ==
    /\ cmd = "delete" /\ pc = "start"
    /\ \/ /\ Exit(Append(stdout, ErrorOutput("flag", "Error converting ID to integer", output)), "param")
          /\ UNCHANGED <<flagVars, promptVars, calls, namespace, tableVars>>
       \/ /\ pc' = "client"
          /\ UNCHANGED <<flagVars, promptVars, calls, stdout, failed, conn, ctx, namespace, tableVars>>

DeleteGetClient == cmd = "delete" /\ pc = "client" /\ Acquire("get")

DeleteGetMachine_continues ==
    /\ cmd = "delete" /\ pc = "get"
    /\ \E ok \in BOOLEAN :
          /\ Call("GetMachine", ok)
          /\ pc' = "confirm"
          /\ UNCHANGED <<stdout, failed, conn, ctx>>
    /\ UNCHANGED <<flagVars, promptVars, namespace, tableVars>>

DeleteGetMachine ==
    /\ cmd = "delete" /\ pc = "get"
    /\ \E ok \in BOOLEAN :
          /\ Call("GetMachine", ok)
          /\ IF ~ok
             THEN Exit(Append(stdout, ErrorOutput("rpc", "Error getting node node", output)), "remote")
             ELSE /\ pc' = "confirm"
                  /\ UNCHANGED <<stdout, failed, conn, ctx>>
    /\ UNCHANGED <<flagVars, promptVars, namespace, tableVars>>

\* confirm := false; the prompt unless --force; a failing prompt returns
\* without printing.
DeleteConfirm ==
    /\ cmd = "delete" /\ pc = "confirm"
    /\ IF force
       THEN /\ confirm' = FALSE
            /\ answer' = "none"
            /\ pc' = "delete"
            /\ UNCHANGED <<stdout, failed, conn, ctx>>
       ELSE \E a \in {"yes", "no", "err"} :
               /\ answer' = a
               /\ IF a = "err"
                  THEN /\ confirm' = FALSE
                       /\ Exit(stdout, "prompt")
                  ELSE /\ confirm' = (a = "yes")
                       /\ pc' = "delete"
                       /\ UNCHANGED <<stdout, failed, conn, ctx>>
    /\ UNCHANGED <<flagVars, calls, namespace, tableVars>>

ShouldDelete_confirmOnly(c, f) == c

ShouldDelete_ignoresAnswer(c, f) == TRUE

ShouldDelete(c, f) == c \/ f

DeleteMachine ==
    /\ cmd = "delete" /\ pc = "delete"
    /\ IF ShouldDelete(confirm, force)
       THEN \E ok \in BOOLEAN :
               /\ Call("DeleteMachine", ok)
               /\ IF output # ""
                  THEN Exit(Append(stdout,
                                   SuccessOutput(IF ok THEN "DeleteMachineResponse" ELSE "nil",
                                                 "", output)),
                            IF ok THEN "none" ELSE "remote")
                  ELSE IF ~ok
                  THEN Exit(Append(stdout, ErrorOutput("rpc", "Error deleting node", output)), "remote")
                  ELSE Exit(Append(stdout,
                                   SuccessOutput("Result: Node deleted", "Node deleted", output)),
                            "none")
       ELSE /\ calls' = calls
            /\ Exit(Append(stdout,
                           SuccessOutput("Result: Node not deleted", "Node not deleted", output)),
                    "none")
    /\ UNCHANGED <<flagVars, promptVars, namespace, tableVars>>

(* moveNodeCmd *)

MoveGetIdentifier ==
    /\ cmd = "move" /\ pc = "start"
    /\ \/ /\ Exit(Append(stdout, ErrorOutput("flag", "Error converting ID to integer", output)), "param")
          /\ UNCHANGED <<flagVars, promptVars, calls, namespace, tableVars>>
       \/ /\ pc' = "namespace"
          /\ UNCHANGED <<flagVars, promptVars, calls, stdout, failed, conn, ctx, namespace, tableVars>>

MoveGetNamespace ==
    /\ cmd = "move" /\ pc = "namespace"
    /\ \/ /\ Exit(Append(stdout, ErrorOutput("flag", "Error getting namespace", output)), "param")
          /\ UNCHANGED <<flagVars, promptVars, calls, namespace, tableVars>>
       \/ /\ namespace' \in Namespaces
          /\ pc' = "client"
          /\ UNCHANGED <<flagVars, promptVars, calls, stdout, failed, conn, ctx, tableVars>>

MoveGetClient == cmd = "move" /\ pc = "client" /\ Acquire("get")

MoveGetMachine_continues ==
    /\ cmd = "move" /\ pc = "get"
    /\ \E ok \in BOOLEAN :
          /\ Call("GetMachine", ok)
          /\ pc' = "move"
          /\ UNCHANGED <<stdout, failed, conn, ctx>>
    /\ UNCHANGED <<flagVars, promptVars, namespace, tableVars>>

MoveGetMachine ==
    /\ cmd = "move" /\ pc = "get"
    /\ \E ok \in BOOLEAN :
          /\ Call("GetMachine", ok)
          /\ IF ~ok
             THEN Exit(Append(stdout, ErrorOutput("rpc", "Error getting node", output)), "remote")
             ELSE /\ pc' = "move"
                  /\ UNCHANGED <<stdout, failed, conn, ctx>>
    /\ UNCHANGED <<flagVars, promptVars, namespace, tableVars>>

MoveMachine ==
    /\ cmd = "move" /\ pc = "move"
    /\ \E ok \in BOOLEAN :
          /\ Call("MoveMachine", ok)
          /\ IF ~ok
             THEN Exit(Append(stdout, ErrorOutput("rpc", "Error moving node", output)), "remote")
             ELSE Exit(Append(stdout,
                              SuccessOutput("Machine", "Node moved to another namespace", output)),
                       "none")
    /\ UNCHANGED <<flagVars, promptVars, namespace, tableVars>>

Next ==
    \/ RegisterGetNamespace \/ RegisterGetClient \/ RegisterGetKey \/ RegisterMachine
    \/ ListGetNamespace \/ ListGetColumns \/ ListGetClient \/ ListMachines
    \/ ListConvert \/ ListRender
    \/ ExpireGetIdentifier \/ ExpireGetClient \/ ExpireMachine
    \/ DeleteGetIdentifier \/ DeleteGetClient \/ DeleteGetMachine
    \/ DeleteConfirm \/ DeleteMachine
    \/ MoveGetIdentifier \/ MoveGetNamespace \/ MoveGetClient
    \/ MoveGetMachine \/ MoveMachine

Spec == Init /\ [][Next]_vars

-----------------------------------------------------------------------------
(* Properties of the command handlers (checked under Spec) *)

Done == pc = "done"
Issued(rpc) == \E i \in DOMAIN calls : calls[i].rpc = rpc
Succeeded(rpc) == \E i \in DOMAIN calls : calls[i].rpc = rpc /\ calls[i].ok
SomeCallFailed == \E i \in DOMAIN calls : ~calls[i].ok
Printed(kind) == \E i \in DOMAIN stdout : stdout[i].kind = kind

\* C1: a delete without --force whose GetMachine succeeded and whose prompt
\* was answered "no" never issues DeleteMachine and prints no error, and it
\* ends in success having printed the one result "Node not deleted".
C1_DeclinedDeleteSkips ==
    (cmd = "delete" /\ ~force /\ Succeeded("GetMachine") /\ answer = "no") =>
        /\ ~Issued("DeleteMachine")
        /\ ~Printed("error")
        /\ Done =>
              /\ failed = "none"
              /\ stdout = <<SuccessOutput("Result: Node not deleted",
                                          "Node not deleted", output)>>

C1_Witness ==
    /\ cmd = "delete" /\ ~force /\ Succeeded("GetMachine") /\ answer = "no"
    /\ Done
    /\ Len(stdout) = 1 /\ stdout[1].override = "Node not deleted"

\* C2: once a remote call has returned a failure the command has printed an
\* error and prints no success output, in table mode and in structured mode.
C2_RemoteFailureIsError ==
    SomeCallFailed =>
        /\ Printed("error")
        /\ ~Printed("success")
        /\ ~Printed("table")

\* C3: a move issues GetMachine before MoveMachine, and when GetMachine
\* fails it ends in failure without MoveMachine having been issued.
C3_MoveGetsFirst ==
    cmd = "move" =>
        /\ \A i \in DOMAIN calls :
              calls[i].rpc = "MoveMachine" =>
                  \E k \in 1..(i - 1) : calls[k].rpc = "GetMachine" /\ calls[k].ok
        /\ (\E i \in DOMAIN calls : calls[i].rpc = "GetMachine" /\ ~calls[i].ok) =>
              /\ Done
              /\ failed = "remote"
              /\ ~Issued("MoveMachine")

C3_Witness ==
    /\ cmd = "move" /\ Done
    /\ calls = <<[rpc |-> "GetMachine", ok |-> FALSE]>>
    /\ Printed("error")

\* C5: every invocation that ends after a step failed has printed exactly
\* one message.
C5_OneMessagePerFailure ==
    (Done /\ failed # "none") => Len(stdout) = 1

\* What nodesToPtables' result variable holds as long as it was not called.
NotProjected == result = [tableData |-> <<>>, err |-> "nil"]

\* C12: with an output format selected, a list whose ListMachines succeeded
\* has ended in success having printed exactly the machines as received (the
\* empty list included), and the projection was never run: neither the
\* columns nor malformed machines turn it into an error.
C12_StructuredListIsRaw ==
    (cmd = "list" /\ output # "" /\ Succeeded("ListMachines")) =>
        /\ Done
        /\ failed = "none"
        /\ stdout = <<SuccessOutputMachines(machines, "", output)>>
        /\ NotProjected

C12_Witness ==
    /\ cmd = "list" /\ output # "" /\ Succeeded("ListMachines") /\ Done
    /\ machines = <<BadKeyMachine, BadAddrMachine>>
    /\ columns = <<"name", "bogus">>
    /\ Len(stdout) = 1 /\ stdout[1].kind = "success"

C12_WitnessEmpty ==
    /\ cmd = "list" /\ output # "" /\ Succeeded("ListMachines") /\ Done
    /\ machines = <<>>
    /\ stdout[1].machines = <<>>

\* C13: when the extraction of a parameter failed, the invocation has ended
\* in failure with an error printed and no remote call was issued.
C13_ParameterFailureIssuesNoCall ==
    failed = "param" =>
        /\ Done
        /\ calls = <<>>
        /\ Printed("error")
        /\ ~Printed("success")

C13_Witness ==
    /\ cmd = "register" /\ failed = "param" /\ Done
    /\ conn = "closed"
    /\ calls = <<>>

SomeMalformed == \E j \in DOMAIN machines : ~WellFormed(machines[j])

\* C14: in table mode, a list whose response holds a machine with a key that
\* does not decode or an address that does not parse ends with an error
\* printed and no table printed.
C14_MalformedIsReportedError ==
    (cmd = "list" /\ output = "" /\ Succeeded("ListMachines") /\ SomeMalformed /\ Done) =>
        /\ Printed("error")
        /\ ~Printed("table")

MutatingCall ==
    CASE cmd = "delete" -> "DeleteMachine"
      [] cmd = "move" -> "MoveMachine"
      [] cmd = "register" -> "RegisterMachine"
      [] cmd = "list" -> "ListMachines"
      [] cmd = "expire" -> "ExpireMachine"

\* C15: register, list and expire issue at most one remote call; delete and
\* move at most two, GetMachine first and the mutating call second; no call
\* is issued twice and none after a call that failed.
C15_CallsBoundedAndOrdered ==
    cmd \in Commands =>
        /\ cmd \in {"register", "list", "expire"} =>
              /\ Len(calls) <= 1
              /\ \A i \in DOMAIN calls : calls[i].rpc = MutatingCall
        /\ cmd \in {"delete", "move"} =>
              /\ Len(calls) <= 2
              /\ Len(calls) >= 1 => calls[1].rpc = "GetMachine"
              /\ Len(calls) = 2 => calls[2].rpc = MutatingCall
        /\ \A i, k \in DOMAIN calls : i # k => calls[i].rpc # calls[k].rpc
        /\ \A i \in DOMAIN calls : i < Len(calls) => calls[i].ok

C15_Witness ==
    /\ cmd = "delete" /\ Done
    /\ Len(calls) = 2
    /\ calls[1] = [rpc |-> "GetMachine", ok |-> TRUE]
    /\ calls[2].rpc = "DeleteMachine"

CountCalls(rpc) == Cardinality({i \in DOMAIN calls : calls[i].rpc = rpc})

\* C16: a delete with --force never shows the prompt and, once it has ended
\* after a successful GetMachine, has issued DeleteMachine exactly once; a
\* delete without --force has issued DeleteMachine only if the prompt was
\* shown and answered "yes".
C16_ForceSkipsPrompt ==
    cmd = "delete" =>
        /\ force =>
              /\ answer = "none"
              /\ (Done /\ Succeeded("GetMachine")) => CountCalls("DeleteMachine") = 1
        /\ (~force /\ Issued("DeleteMachine")) => answer = "yes"
        /\ CountCalls("DeleteMachine") <= 1

C16_Witness ==
    /\ cmd = "delete" /\ force /\ Done
    /\ Succeeded("GetMachine")
    /\ answer = "none"
    /\ CountCalls("DeleteMachine") = 1

\* C17: a delete whose GetMachine failed has ended in failure, without the
\* prompt having been shown and without DeleteMachine having been issued,
\* with and without --force.
C17_FailedGetStopsDelete ==
    (cmd = "delete" /\ \E i \in DOMAIN calls : calls[i].rpc = "GetMachine" /\ ~calls[i].ok) =>
        /\ Done
        /\ failed = "remote"
        /\ answer = "none"
        /\ ~Issued("DeleteMachine")
        /\ Printed("error")

C17_Witness ==
    /\ cmd = "delete" /\ force /\ Done
    /\ calls = <<[rpc |-> "GetMachine", ok |-> FALSE]>>
    /\ answer = "none"

\* C18: the connection and the context are acquired together, a remote call
\* is only issued while both are held, and an invocation that has ended
\* holds neither: whatever was acquired is closed respectively cancelled,
\* on every way out.
C18_ReleasedAtExit ==
    cmd \in Commands =>
        /\ (conn = "none") = (ctx = "none")
        /\ (conn = "open") = (ctx = "live")
        /\ calls # <<>> => conn # "none"
        /\ pc \in {"key", "call", "get", "confirm", "delete", "move", "convert", "render"} =>
              conn = "open"
        /\ Done => (conn \in {"none", "closed"} /\ ctx \in {"none", "cancelled"})
        /\ (Done /\ conn = "none") => (failed = "param" /\ calls = <<>>)

C18_Witness ==
    /\ cmd = "delete" /\ Done /\ failed = "prompt"
    /\ conn = "closed" /\ ctx = "cancelled"

C18_WitnessPanic ==
    /\ cmd = "list" /\ Done /\ failed = "panic"
    /\ conn = "closed" /\ ctx = "cancelled"

-----------------------------------------------------------------------------
(* Properties of nodesToPtables (checked under SpecTable) *)

ValidColumns == \A i \in DOMAIN columns : columns[i] \in DOMAIN availableColumns
AllWellFormed == \A j \in DOMAIN machines : WellFormed(machines[j])
AllAddressesParse ==
    \A j \in DOMAIN machines :
        \A i \in DOMAIN machines[j].IpAddresses : ParsesAsIP(machines[j].IpAddresses[i])

\* The cell of the first machine's row in the column named key.
Cell(key) ==
    result.tableData[2][CHOOSE i \in DOMAIN columns : columns[i] = key]

StatusCase ==
    /\ Returned
    /\ columns = <<"last_seen", "online", "expired", "namespace">>
    /\ Len(machines) = 1
    /\ AllWellFormed

AddrCase ==
    /\ Returned
    /\ columns = <<"ip_addresses">>
    /\ Len(machines) = 1
    /\ AllWellFormed

\* C4: a column list holding a key that is not a defined column key makes
\* the projection return a configuration error (an error that is neither the
\* key-decoding error nor a panic) and no table rows, whatever the machines.
C4_UnknownColumnRejected ==
    (Returned /\ ~ValidColumns) =>
        /\ result.err \notin {"nil", "UnmarshalText", "panic"}
        /\ result.tableData = <<>>

HeaderOrdered(cols) ==
    /\ Len(result.tableData[1]) = Len(cols)
    /\ \A i \in DOMAIN cols : result.tableData[1][i] = availableColumns[cols[i]]

RowsOrdered(cols) ==
    /\ Len(result.tableData) = 1 + Len(machines)
    /\ \A j \in DOMAIN machines :
          /\ Len(result.tableData[j + 1]) = Len(cols)
          /\ \A i \in DOMAIN cols :
                result.tableData[j + 1][i] =
                    defaultData(namespace, machines[j], now)[cols[i]]

\* C6 as stated: for every non-empty list of valid column keys and every list
\* of machines (here: with valid address literals) the projection returns
\* the header and one row per machine, in the requested column order.
C6_AnyMachinesOrdered ==
    (Returned /\ columns # <<>> /\ ValidColumns /\ AllAddressesParse) =>
        /\ result.err = "nil"
        /\ HeaderOrdered(columns)
        /\ RowsOrdered(columns)

\* C6 amended: for every non-empty list of valid column keys (repeats
\* included), if every machine's key decodes and every address parses the
\* projection returns the header and one row per machine, each as long as the
\* column list and holding at position i the header text respectively the
\* formatted value of the i-th requested column; otherwise it returns no
\* table at all.
C6_ProjectionOrdered ==
    (Returned /\ columns # <<>> /\ ValidColumns) =>
        IF AllWellFormed
        THEN /\ result.err = "nil"
             /\ HeaderOrdered(columns)
             /\ RowsOrdered(columns)
        ELSE /\ result.err # "nil"
             /\ result.tableData = <<>>

C6_Witness ==
    /\ Returned
    /\ Len(columns) = 2 /\ columns[1] = columns[2] /\ ValidColumns
    /\ Len(machines) = 2 /\ AllWellFormed
    /\ Len(result.tableData) = 3

NineDefaults ==
    <<"id", "name", "nodekey", "namespace", "ip_addresses", "ephemeral",
      "last_seen", "online", "expired">>

\* C7 as stated: with an empty column list the projection returns the nine
\* default columns and one row per machine, whatever the machines are (here:
\* with valid address literals).
C7_AnyMachinesDefault ==
    (Returned /\ columns = <<>> /\ AllAddressesParse) =>
        /\ result.err = "nil"
        /\ HeaderOrdered(NineDefaults)
        /\ RowsOrdered(NineDefaults)

\* C7 amended: with an empty column list, if every machine's key decodes and
\* every address parses, the header and every row hold exactly the 9 columns
\* id, name, nodekey, namespace, ip_addresses, ephemeral, last_seen, online,
\* expired in that order (no tags, no routes), one row per machine; otherwise
\* no table is returned.
C7_EmptyMeansNineDefaults ==
    (Returned /\ columns = <<>>) =>
        IF AllWellFormed
        THEN /\ result.err = "nil"
             /\ HeaderOrdered(NineDefaults)
             /\ RowsOrdered(NineDefaults)
             /\ \A r \in DOMAIN result.tableData : Len(result.tableData[r]) = 9
        ELSE /\ result.err # "nil"
             /\ result.tableData = <<>>

C7_Witness ==
    /\ Returned /\ columns = <<>>
    /\ Len(machines) = 2 /\ AllWellFormed
    /\ Len(result.tableData) = 3
    /\ Len(result.tableData[1]) = 9

\* C8: the online cell is "online" exactly when lastSeen is present and
\* now - lastSeen < 5 minutes, and "offline" otherwise (absent lastSeen, or
\* lastSeen 5 minutes or more before now).
C8_OnlineIffWithinFiveMinutes ==
    StatusCase =>
        LET ls == machines[1].LastSeen
            within == ls # Nil /\ now - ls[1] < 5
        IN  /\ result.err = "nil"
            /\ Cell("online") = (IF within THEN LightGreen("online")
                                           ELSE LightRed("offline"))

C8_Witness ==
    /\ StatusCase
    /\ machines[1].LastSeen = Some(now - 5)
    /\ Cell("online") = LightRed("offline")

\* C9: the expired cell is "no" when expiry is absent or the zero time, for
\* every now; for any other expiry t it is "yes" exactly when now >= t.
C9_ExpiredIffReached ==
    StatusCase =>
        LET ex == machines[1].Expiry
            expired == ex # Nil /\ ex[1] # 0 /\ now >= ex[1]
        IN  /\ result.err = "nil"
            /\ Cell("expired") = (IF expired THEN LightRed("yes")
                                             ELSE LightGreen("no"))

C9_Witness ==
    /\ StatusCase
    /\ machines[1].Expiry = Some(now)
    /\ Cell("expired") = LightRed("yes")

FamilyIdx(addrs, four) == {i \in DOMAIN addrs : Is4(addrs[i]) = four}

FirstOf(addrs, four) ==
    IF FamilyIdx(addrs, four) = {} THEN ""
    ELSE addrs[CHOOSE i \in FamilyIdx(addrs, four) :
                   \A k \in FamilyIdx(addrs, four) : i <= k]

LastOf(addrs, four) ==
    IF FamilyIdx(addrs, four) = {} THEN ""
    ELSE addrs[CHOOSE i \in FamilyIdx(addrs, four) :
                   \A k \in FamilyIdx(addrs, four) : i >= k]

RoutesCase ==
    /\ Returned
    /\ columns = <<"routes">>
    /\ Len(machines) = 1
    /\ AllWellFormed

\* The entry the routes cell is expected to hold for one requested route.
RouteEntry(route, enabledSet) ==
    IF route \in enabledSet THEN "*" \o LightGreen(route) ELSE LightRed(route)

\* C11: the routes cell holds exactly one entry per requested route, in the
\* requested order, an entry carrying the leading "*" exactly when its route
\* occurs among the enabled routes, whatever their order; an enabled route
\* that was not requested adds no entry.
C11_RoutesFollowRequested ==
    RoutesCase =>
        LET req == machines[1].RequestedRoutes
            en  == machines[1].EnabledRoutes
            enabledSet == {en[k] : k \in DOMAIN en}
        IN  /\ result.err = "nil"
            /\ Cell("routes") =
                  Join([i \in DOMAIN req |-> RouteEntry(req[i], enabledSet)], ", ")

C11_Witness ==
    /\ RoutesCase
    /\ machines[1].RequestedRoutes = <<"192.168.0.0/16", "10.0.0.0/8">>
    /\ machines[1].EnabledRoutes = <<"0.0.0.0/0", "10.0.0.0/8">>
    /\ Cell("routes") = LightRed("192.168.0.0/16") \o ", " \o "*" \o LightGreen("10.0.0.0/8")

====
